---- MODULE Spec2Model ----
(***************************************************************************)
(* plsno429: the throttling algorithms RetryAlgorithm and                  *)
(* TokenBucketAlgorithm over the shared BaseThrottleAlgorithm (usage       *)
(* window, TPM gate, max-wait guard).                                      *)
(*                                                                         *)
(* Python floats (delays, the clock, the bucket level, the rates) are      *)
(* modelled as exact rationals <<numerator, denominator>> in lowest terms, *)
(* denominator > 0.  None is the empty tuple.                              *)
(***************************************************************************)
EXTENDS Integers, Sequences, FiniteSets, TLC

VARIABLES
    phase,          \* "new" (constructor not yet run) | "ready" | "config_error"
    args,           \* the keyword arguments given to the constructor
    cfg,            \* the instance's configuration fields (self.tpm_limit, ...)
    now,            \* time.time()
    _token_usage,   \* self._token_usage: minute -> token count
    _last_cleanup,  \* self._last_cleanup
    _retry_count,   \* RetryAlgorithm._retry_count
    _tokens,        \* TokenBucketAlgorithm._tokens
    _last_refill,   \* TokenBucketAlgorithm._last_refill
    last,           \* the call that has just returned and how it ended ("none" once time has passed)
    answered,       \* history: RetryAlgorithm failures answered with a delay since the last success
    recorded,       \* history: minute -> tokens ever handed to _add_token_usage in that minute
    callers         \* the invocations of the wrapped function under way, one per caller

vars == <<phase, args, cfg, now, _token_usage, _last_cleanup, _retry_count,
          _tokens, _last_refill, last, answered, recorded, callers>>

-----------------------------------------------------------------------------
(* Bounds of the model. *)

\* The clock stops advancing at MaxTime seconds.
MaxTime == 180
\* RetryAlgorithm.on_request_failure is followed until MaxAnswered failures
\* have been answered with a delay since the last success.
MaxAnswered == 4
\* An invocation of the wrapped function is followed for MaxAttempts attempts.
MaxAttempts == 4
\* With the wrapper the clock stops advancing at MaxInvokerTime seconds, and
\* with callers sharing an instance at MaxSharedTime seconds.
MaxInvokerTime == 60
MaxSharedTime == 30
\* The usage window on its own is followed for MaxWindowTime seconds, in steps
\* of WindowStep seconds.
MaxWindowTime == 210
WindowStep == 10
\* The clock advances in steps of TickStep seconds.
TickStep == 30
\* Token estimates and token counts passed by the caller range over 0..MaxEst.
MaxEst == 2
\* on_request_success records usage only while the window's total stays <= MaxUsage.
MaxUsage == 2

-----------------------------------------------------------------------------
(* Exact rational arithmetic standing for Python float arithmetic. *)

None == <<>>

Abs(x) == IF x < 0 THEN -x ELSE x

RECURSIVE GCD(_, _)
GCD(a, b) == IF b = 0 THEN a ELSE GCD(b, a % b)

\* n/d in lowest terms, d > 0.
Rat(n, d) == LET g == GCD(Abs(n), d) IN <<n \div g, d \div g>>

R(n) == <<n, 1>>

RAdd(a, b) == Rat(a[1] * b[2] + b[1] * a[2], a[2] * b[2])
RSub(a, b) == Rat(a[1] * b[2] - b[1] * a[2], a[2] * b[2])
RMul(a, b) == Rat(a[1] * b[1], a[2] * b[2])
\* a / b for b > 0.
RDiv(a, b) == Rat(a[1] * b[2], a[2] * b[1])
RLt(a, b) == a[1] * b[2] < b[1] * a[2]
RLe(a, b) == a[1] * b[2] <= b[1] * a[2]
RMin(a, b) == IF RLe(a, b) THEN a ELSE b

RECURSIVE RPow(_, _)
RPow(a, k) == IF k = 0 THEN R(1) ELSE RMul(a, RPow(a, k - 1))

\* Python's x // 60 for a float x >= 0 and int(): the integer part.
RFloor(a) == a[1] \div a[2]
\* Python's x % 60 on floats.
RMod(a, m) == RSub(a, R(m * RFloor(RDiv(a, R(m)))))

-----------------------------------------------------------------------------
(* Constructor arguments.  Every record carries the keywords of both       *)
(* variants; a variant ignores the keywords that are not its own.          *)

RetryDefaults ==
    [variant |-> "retry", tpm_limit |-> 5, safety_margin |-> <<1, 2>>,
     max_wait_minutes |-> R(2), jitter |-> FALSE,
     max_retries |-> 3, base_delay |-> R(1), max_delay |-> R(60),
     backoff_multiplier |-> R(2),
     burst_size |-> 2, refill_rate |-> <<1, 30>>]

BucketDefaults ==
    [RetryDefaults EXCEPT !.variant = "token_bucket", !.tpm_limit = 3,
                          !.safety_margin = R(1), !.max_wait_minutes = <<1, 2>>]

\* Configurations every bound of which is respected.
ValidConfigs ==
    { RetryDefaults,
      [RetryDefaults EXCEPT !.jitter = TRUE, !.base_delay = R(4), !.max_delay = R(3),
                            !.backoff_multiplier = <<1, 2>>, !.tpm_limit = 3,
                            !.max_wait_minutes = <<1, 20>>, !.safety_margin = R(1)],
      [RetryDefaults EXCEPT !.max_retries = 0, !.safety_margin = R(0), !.burst_size = 0],
      BucketDefaults,
      [BucketDefaults EXCEPT !.jitter = TRUE, !.burst_size = 3, !.refill_rate = R(2),
                             !.tpm_limit = 200, !.safety_margin = <<1, 2>>,
                             !.max_wait_minutes = R(2), !.max_retries = -1] }

\* Configurations that violate one bound of the base class or of their variant.
InvalidConfigs ==
    UNION { { [d EXCEPT !.tpm_limit = 0], [d EXCEPT !.tpm_limit = -1],
              [d EXCEPT !.safety_margin = <<-1, 2>>], [d EXCEPT !.safety_margin = <<3, 2>>],
              [d EXCEPT !.max_wait_minutes = R(0)], [d EXCEPT !.max_wait_minutes = R(-1)] }
            : d \in {RetryDefaults, BucketDefaults} }
    \cup { [RetryDefaults EXCEPT !.max_retries = -1],
           [RetryDefaults EXCEPT !.base_delay = R(0)],
           [RetryDefaults EXCEPT !.max_delay = R(0)],
           [RetryDefaults EXCEPT !.max_delay = <<-1, 2>>],
           [RetryDefaults EXCEPT !.backoff_multiplier = R(0)],
           [BucketDefaults EXCEPT !.burst_size = 0],
           [BucketDefaults EXCEPT !.burst_size = -1],
           [BucketDefaults EXCEPT !.refill_rate = R(0)],
           [BucketDefaults EXCEPT !.refill_rate = <<-1, 30>>] }

ConfigArgs == ValidConfigs \cup InvalidConfigs

\* The exceptions handed to on_request_failure: is_rate_limit_error(e), and
\* parse_retry_after(e.response) (None when there is no usable hint).
ServerDelays == {None, R(100)}
Exceptions ==
    {[rate_limit |-> FALSE, retry_after |-> None]}
    \cup [rate_limit : {TRUE}, retry_after : ServerDelays]

EstValues == 0 .. MaxEst
\* The estimates on_request_failure is given.
FailureEstValues == {0, MaxEst}

-----------------------------------------------------------------------------
(* How a call ends. *)

Returned(v) == [outcome |-> "return", ret |-> v]
RateLimitExceeded == [outcome |-> "RateLimitExceeded", ret |-> None]

\* The record of a call: the operation, its token argument, the exception it
\* was given, the TPM gate's answer (tpm_delay), the delay before jitter, the
\* delay handed to _enforce_max_wait, and how the call ended; again tells a read
\* accessor called a second time with no call and no time in between.
Call(op, est, exc, gate, raw, checked, end) ==
    [op |-> op, est |-> est, exc |-> exc, gate |-> gate, raw |-> raw,
     checked |-> checked, outcome |-> end.outcome, ret |-> end.ret, again |-> FALSE]

NoException == [rate_limit |-> FALSE, retry_after |-> None]

-----------------------------------------------------------------------------
(* BaseThrottleAlgorithm *)

\* Mutant of _validate_config: the ends of the safety_margin range are refused.
_validate_config_StrictMargin(c) ==
    \/ c.tpm_limit <= 0
    \/ ~(RLt(R(0), c.safety_margin) /\ RLt(c.safety_margin, R(1)))
    \/ RLe(c.max_wait_minutes, R(0))

\* TRUE when _validate_config raises ConfigurationError.
_validate_config(c) ==
    \/ c.tpm_limit <= 0
    \/ ~(RLe(R(0), c.safety_margin) /\ RLe(c.safety_margin, R(1)))
    \/ RLe(c.max_wait_minutes, R(0))

\* Mutant of _cleanup_old_token_usage: the cleanup runs at every call.
_cleanup_old_token_usage_EveryCall(usage, last_cleanup, t) ==
    LET current_minute == RFloor(RDiv(t, R(60)))
        cutoff_minute == current_minute - 2
        keys_to_remove == {minute \in DOMAIN usage : minute < cutoff_minute}
    IN  [usage |-> [minute \in (DOMAIN usage) \ keys_to_remove |-> usage[minute]],
         last_cleanup |-> t]

\* The usage window and the cleanup time after _cleanup_old_token_usage at time t.
_cleanup_old_token_usage(usage, last_cleanup, t) ==
    IF RLt(RSub(t, last_cleanup), R(30))
    THEN [usage |-> usage, last_cleanup |-> last_cleanup]
    ELSE LET current_minute == RFloor(RDiv(t, R(60)))
             cutoff_minute == current_minute - 2
             keys_to_remove == {minute \in DOMAIN usage : minute < cutoff_minute}
         IN  [usage |-> [minute \in (DOMAIN usage) \ keys_to_remove |-> usage[minute]],
              last_cleanup |-> t]

\* dict.get(minute, 0)
Get(usage, minute) == IF minute \in DOMAIN usage THEN usage[minute] ELSE 0

\* _get_current_tpm_usage at time t: the window after cleanup and the value returned.
_get_current_tpm_usage(usage, last_cleanup, t) ==
    LET cleaned == _cleanup_old_token_usage(usage, last_cleanup, t)
        current_minute == RFloor(RDiv(t, R(60)))
    IN  [usage |-> cleaned.usage, last_cleanup |-> cleaned.last_cleanup,
         value |-> Get(cleaned.usage, current_minute)]

\* Mutant of _add_token_usage: the minute's count is replaced, not added to.
_add_token_usage_Overwrites(usage, t, tokens) ==
    LET current_minute == RFloor(RDiv(t, R(60)))
    IN  [minute \in (DOMAIN usage) \cup {current_minute} |->
            IF minute = current_minute THEN tokens ELSE usage[minute]]

\* The usage window after _add_token_usage(tokens) at time t.
_add_token_usage(usage, t, tokens) ==
    LET current_minute == RFloor(RDiv(t, R(60)))
    IN  [minute \in (DOMAIN usage) \cup {current_minute} |->
            IF minute = current_minute THEN Get(usage, current_minute) + tokens
            ELSE usage[minute]]

\* utils.calculate_wait_until_next_minute: 60 - now mod 60.
calculate_wait_until_next_minute(t) == RSub(R(60), RMod(t, 60))

\* Mutant of _check_tpm_limit: a request that exactly reaches the limit is delayed.
_check_tpm_limit_DelaysAtLimit(c, usage, last_cleanup, t, estimated_tokens) ==
    LET effective_limit == RFloor(RMul(R(c.tpm_limit), c.safety_margin))
        current == _get_current_tpm_usage(usage, last_cleanup, t)
    IN  [usage |-> current.usage, last_cleanup |-> current.last_cleanup,
         delay |-> IF current.value + estimated_tokens >= effective_limit
                   THEN calculate_wait_until_next_minute(t)
                   ELSE None]

\* _check_tpm_limit at time t: the window after the lazy cleanup and the delay (or None).
_check_tpm_limit(c, usage, last_cleanup, t, estimated_tokens) ==
    LET effective_limit == RFloor(RMul(R(c.tpm_limit), c.safety_margin))
        current == _get_current_tpm_usage(usage, last_cleanup, t)
    IN  [usage |-> current.usage, last_cleanup |-> current.last_cleanup,
         delay |-> IF current.value + estimated_tokens > effective_limit
                   THEN calculate_wait_until_next_minute(t)
                   ELSE None]

\* Mutant of _enforce_max_wait: a delay equal to the maximum is refused too.
_enforce_max_wait_RefusesEqual(c, delay) ==
    LET max_wait_seconds == RMul(c.max_wait_minutes, R(60))
    IN  IF RLe(max_wait_seconds, delay) THEN RateLimitExceeded ELSE Returned(delay)

\* _enforce_max_wait: the delay, or the RateLimitExceeded error.
_enforce_max_wait(c, delay) ==
    LET max_wait_seconds == RMul(c.max_wait_minutes, R(60))
    IN  IF RLt(max_wait_seconds, delay) THEN RateLimitExceeded ELSE Returned(delay)

\* utils.add_jitter: the values the jittered delay may take (a multiplicative
\* perturbation, the identity when jitter is off).
JitterFactors == {<<4, 5>>, R(1), <<6, 5>>}
add_jitter(delay, jitter) ==
    IF jitter THEN {RMul(delay, f) : f \in JitterFactors} ELSE {delay}

-----------------------------------------------------------------------------
(* RetryAlgorithm *)

\* TRUE when _validate_retry_config raises ConfigurationError.
_validate_retry_config(c) ==
    \/ c.max_retries < 0
    \/ RLe(c.base_delay, R(0))
    \/ RLe(c.max_delay, R(0))
    \/ RLe(c.backoff_multiplier, R(0))

\* Mutant of BackoffDelay: the exponent is the counter, not the counter less one.
BackoffDelay_ExponentOffByOne(c, retry_count) ==
    RMin(RMul(c.base_delay, RPow(c.backoff_multiplier, retry_count)), c.max_delay)

\* The exponential backoff of on_request_failure, from the incremented counter.
BackoffDelay(c, retry_count) ==
    RMin(RMul(c.base_delay, RPow(c.backoff_multiplier, retry_count - 1)), c.max_delay)

\* Mutant of RetryFailure: the server's delay is capped at max_delay.
RetryFailure_CapsServerDelay(c, retry_count, exception) ==
    IF ~exception.rate_limit
    THEN [retry_count |-> retry_count, delay |-> None]
    ELSE IF retry_count >= c.max_retries
    THEN [retry_count |-> retry_count, delay |-> None]
    ELSE [retry_count |-> retry_count + 1,
          delay |-> IF exception.retry_after # None
                    THEN RMin(exception.retry_after, c.max_delay)
                    ELSE BackoffDelay(c, retry_count + 1)]

\* Mutant of RetryFailure: the budget is exhausted one failure too late.
RetryFailure_BudgetOffByOne(c, retry_count, exception) ==
    IF ~exception.rate_limit
    THEN [retry_count |-> retry_count, delay |-> None]
    ELSE IF retry_count > c.max_retries
    THEN [retry_count |-> retry_count, delay |-> None]
    ELSE [retry_count |-> retry_count + 1,
          delay |-> IF exception.retry_after # None
                    THEN exception.retry_after
                    ELSE BackoffDelay(c, retry_count + 1)]

\* Mutant of RetryFailure: the retry budget is not looked at.
RetryFailure_NoBudget(c, retry_count, exception) ==
    IF ~exception.rate_limit
    THEN [retry_count |-> retry_count, delay |-> None]
    ELSE [retry_count |-> retry_count + 1,
          delay |-> IF exception.retry_after # None
                    THEN exception.retry_after
                    ELSE BackoffDelay(c, retry_count + 1)]

\* on_request_failure up to the jitter: the counter after the call and the
\* delay before jitter (None when the call returns None).
RetryFailure(c, retry_count, exception) ==
    IF ~exception.rate_limit
    THEN [retry_count |-> retry_count, delay |-> None]
    ELSE IF retry_count >= c.max_retries
    THEN [retry_count |-> retry_count, delay |-> None]
    ELSE [retry_count |-> retry_count + 1,
          delay |-> IF exception.retry_after # None
                    THEN exception.retry_after
                    ELSE BackoffDelay(c, retry_count + 1)]

-----------------------------------------------------------------------------
(* TokenBucketAlgorithm *)

\* TRUE when _validate_token_bucket_config raises ConfigurationError.
_validate_token_bucket_config(c) ==
    \/ c.burst_size <= 0
    \/ RLe(c.refill_rate, R(0))

\* Mutant of _refill_tokens: the level is not capped at burst_size.
_refill_tokens_Uncapped(c, tokens, last_refill, t) ==
    LET time_elapsed == RSub(t, last_refill)
        tokens_to_add == RMul(time_elapsed, c.refill_rate)
    IN  [tokens |-> RAdd(tokens, tokens_to_add), last_refill |-> t]

\* Mutant of _refill_tokens: the time of the refill is not recorded.
_refill_tokens_KeepsTimestamp(c, tokens, last_refill, t) ==
    LET time_elapsed == RSub(t, last_refill)
        tokens_to_add == RMul(time_elapsed, c.refill_rate)
    IN  [tokens |-> RMin(R(c.burst_size), RAdd(tokens, tokens_to_add)),
         last_refill |-> last_refill]

\* The bucket after _refill_tokens at time t.
_refill_tokens(c, tokens, last_refill, t) ==
    LET time_elapsed == RSub(t, last_refill)
        tokens_to_add == RMul(time_elapsed, c.refill_rate)
    IN  [tokens |-> RMin(R(c.burst_size), RAdd(tokens, tokens_to_add)),
         last_refill |-> t]

\* Mutant of _consume_tokens: the tokens are taken whether or not they are there.
_consume_tokens_DebitsOnFailure(c, tokens, last_refill, t, n) ==
    LET b == _refill_tokens(c, tokens, last_refill, t)
    IN  [tokens |-> RSub(b.tokens, R(n)), last_refill |-> b.last_refill,
         ok |-> RLe(R(n), b.tokens)]

\* Mutant of _consume_tokens: success is reported without taking the tokens.
_consume_tokens_NoDebit(c, tokens, last_refill, t, n) ==
    LET b == _refill_tokens(c, tokens, last_refill, t)
    IN  [tokens |-> b.tokens, last_refill |-> b.last_refill, ok |-> RLe(R(n), b.tokens)]

\* The bucket after _consume_tokens(n) at time t, and the value returned.
_consume_tokens(c, tokens, last_refill, t, n) ==
    LET b == _refill_tokens(c, tokens, last_refill, t)
    IN  IF RLe(R(n), b.tokens)
        THEN [tokens |-> RSub(b.tokens, R(n)), last_refill |-> b.last_refill, ok |-> TRUE]
        ELSE [tokens |-> b.tokens, last_refill |-> b.last_refill, ok |-> FALSE]

\* The bucket after _calculate_wait_time(n) at time t, and the value returned.
_calculate_wait_time(c, tokens, last_refill, t, n) ==
    LET b == _refill_tokens(c, tokens, last_refill, t)
        tokens_needed == RSub(R(n), b.tokens)
    IN  [tokens |-> b.tokens, last_refill |-> b.last_refill,
         wait |-> IF RLe(R(n), b.tokens) THEN R(0) ELSE RDiv(tokens_needed, c.refill_rate)]

\* What token_estimate_func may do when should_throttle is given no estimate:
\* return a count, or raise.
EstimatorOutcomes ==
    {[raises |-> TRUE, value |-> 0]} \cup {[raises |-> FALSE, value |-> v] : v \in EstValues}

\* The estimator is not asked.
NoEstimate == [raises |-> FALSE, value |-> 0]

\* The estimated_tokens should_throttle works with.
EstimatedTokens(given, estimator) ==
    IF given = 0
    THEN (IF estimator.raises THEN 100 ELSE estimator.value)
    ELSE given

\* Mutant of BucketShouldThrottle: the bucket is refilled and asked before the
\* TPM gate is looked at.
BucketShouldThrottle_BucketFirst(c, usage, last_cleanup, tokens, last_refill, t, estimated_tokens) ==
    LET gate == _check_tpm_limit(c, usage, last_cleanup, t, estimated_tokens)
        consumed == _consume_tokens(c, tokens, last_refill, t, estimated_tokens)
        w == _calculate_wait_time(c, consumed.tokens, consumed.last_refill, t,
                                  estimated_tokens)
    IN  IF ~consumed.ok
        THEN [usage |-> gate.usage, last_cleanup |-> gate.last_cleanup,
              tokens |-> w.tokens, last_refill |-> w.last_refill,
              tpm_delay |-> None, wait_time |-> w.wait]
        ELSE [usage |-> gate.usage, last_cleanup |-> gate.last_cleanup,
              tokens |-> consumed.tokens, last_refill |-> consumed.last_refill,
              tpm_delay |-> gate.delay, wait_time |-> None]

\* should_throttle up to the jitter: the usage window and the bucket after the
\* call, the TPM gate's delay (or None), and the bucket's wait before jitter
\* (None when the gate answered or the tokens were consumed).
BucketShouldThrottle(c, usage, last_cleanup, tokens, last_refill, t, estimated_tokens) ==
    LET gate == _check_tpm_limit(c, usage, last_cleanup, t, estimated_tokens)
        consumed == _consume_tokens(c, tokens, last_refill, t, estimated_tokens)
        w == _calculate_wait_time(c, consumed.tokens, consumed.last_refill, t,
                                  estimated_tokens)
    IN  IF gate.delay # None
        THEN [usage |-> gate.usage, last_cleanup |-> gate.last_cleanup,
              tokens |-> tokens, last_refill |-> last_refill,
              tpm_delay |-> gate.delay, wait_time |-> None]
        ELSE IF ~consumed.ok
        THEN [usage |-> gate.usage, last_cleanup |-> gate.last_cleanup,
              tokens |-> w.tokens, last_refill |-> w.last_refill,
              tpm_delay |-> None, wait_time |-> w.wait]
        ELSE [usage |-> gate.usage, last_cleanup |-> gate.last_cleanup,
              tokens |-> consumed.tokens, last_refill |-> consumed.last_refill,
              tpm_delay |-> None, wait_time |-> None]

\* Mutant of BucketFailure: a wait time of zero is used as it is.
BucketFailure_NoDefault(c, tokens, last_refill, t, exception, estimated_tokens) ==
    IF ~exception.rate_limit
    THEN [tokens |-> tokens, last_refill |-> last_refill, delay |-> None]
    ELSE IF exception.retry_after # None
    THEN [tokens |-> tokens, last_refill |-> last_refill, delay |-> exception.retry_after]
    ELSE LET w == _calculate_wait_time(c, tokens, last_refill, t, estimated_tokens)
         IN  [tokens |-> w.tokens, last_refill |-> w.last_refill, delay |-> w.wait]

\* Mutant of BucketFailure: the wait time is computed (and the bucket refilled)
\* before the error is classified.
BucketFailure_RefillFirst(c, tokens, last_refill, t, exception, estimated_tokens) ==
    LET w == _calculate_wait_time(c, tokens, last_refill, t, estimated_tokens)
    IN  IF ~exception.rate_limit
        THEN [tokens |-> w.tokens, last_refill |-> w.last_refill, delay |-> None]
        ELSE IF exception.retry_after # None
        THEN [tokens |-> w.tokens, last_refill |-> w.last_refill,
              delay |-> exception.retry_after]
        ELSE [tokens |-> w.tokens, last_refill |-> w.last_refill,
              delay |-> IF w.wait = R(0) THEN R(1) ELSE w.wait]

\* on_request_failure up to the jitter: the bucket after the call and the delay
\* before jitter (None when the call returns None).
BucketFailure(c, tokens, last_refill, t, exception, estimated_tokens) ==
    IF ~exception.rate_limit
    THEN [tokens |-> tokens, last_refill |-> last_refill, delay |-> None]
    ELSE IF exception.retry_after # None
    THEN [tokens |-> tokens, last_refill |-> last_refill, delay |-> exception.retry_after]
    ELSE LET w == _calculate_wait_time(c, tokens, last_refill, t, estimated_tokens)
         IN  [tokens |-> w.tokens, last_refill |-> w.last_refill,
              delay |-> IF w.wait = R(0) THEN R(1) ELSE w.wait]

-----------------------------------------------------------------------------
(* The state machine: one instance, its constructor and its operations. *)

ConfigurationError == [outcome |-> "ConfigurationError", ret |-> None]

\* The callers of the wrapped function.
Callers == {"a", "b"}
\* The caller of an instance that is not shared.
OneCaller == {"a"}

\* A caller between two invocations: where it is in wrapper(), the wrapper's
\* estimated_tokens, the exception caught (e), the tokens of the result
\* (actual_tokens), the attempts made, how its last invocation ended, the
\* history of what that invocation did, and the history of the tokens this
\* caller reported to on_request_success, by minute.
IdleCaller ==
    [pc |-> "idle", estimated_tokens |-> 0, e |-> NoException, actual_tokens |-> 0,
     attempts |-> 0, result |-> "none", trace |-> <<>>, tokens_sent |-> <<>>]

NoCall == Call("none", 0, NoException, None, None, None, Returned(None))

\* A call that neither takes an exception nor computes a delay.
Plain(op, n, end) == Call(op, n, NoException, None, None, None, end)

Init ==
    /\ phase = "new"
    /\ args \in ConfigArgs
    /\ cfg = None
    /\ now = R(0)
    /\ _token_usage = <<>>
    /\ _last_cleanup = None
    /\ _retry_count = None
    /\ _tokens = None
    /\ _last_refill = None
    /\ last = NoCall
    /\ answered = 0
    /\ recorded = <<>>
    /\ callers = [c \in OneCaller |-> IdleCaller]

\* TRUE when the constructor of the variant raises ConfigurationError.
ConstructorRaises(c) ==
    \/ _validate_config(c)
    \/ c.variant = "retry" /\ _validate_retry_config(c)
    \/ c.variant = "token_bucket" /\ _validate_token_bucket_config(c)

\* The configuration fields __init__ stores from its arguments.
StoredConfig(a) == a

\* RetryAlgorithm(**args) or TokenBucketAlgorithm(**args)
Construct ==
    /\ phase = "new"
    /\ IF ConstructorRaises(StoredConfig(args))
       THEN /\ phase' = "config_error"
            /\ last' = Plain("__init__", 0, ConfigurationError)
            /\ UNCHANGED <<cfg, _token_usage, _last_cleanup, _retry_count, _tokens,
                           _last_refill>>
       ELSE /\ phase' = "ready"
            /\ cfg' = StoredConfig(args)
            /\ last' = Plain("__init__", 0, Returned(None))
            /\ _token_usage' = <<>>
            /\ _last_cleanup' = now
            /\ _retry_count' = IF args.variant = "retry" THEN 0 ELSE None
            /\ _tokens' = IF args.variant = "token_bucket" THEN R(cfg'.burst_size) ELSE None
            /\ _last_refill' = IF args.variant = "token_bucket" THEN now ELSE None
    /\ UNCHANGED <<args, now, answered, recorded>>

\* Time passes between two calls.
Tick ==
    /\ phase # "config_error"
    /\ RLe(RAdd(now, R(TickStep)), R(MaxTime))
    /\ now' = RAdd(now, R(TickStep))
    /\ last' = NoCall
    /\ UNCHANGED <<phase, args, cfg, _token_usage, _last_cleanup, _retry_count,
                   _tokens, _last_refill, answered, recorded>>

\* The history of the tokens handed to _add_token_usage, by the minute of the
\* call, once tokens more were handed to it at time t.
Recorded(history, t, tokens) ==
    LET m == t[1] \div (60 * t[2])
    IN  [k \in (DOMAIN history) \cup {m} |->
            (IF k \in DOMAIN history THEN history[k] ELSE 0) + (IF k = m THEN tokens ELSE 0)]

\* The tokens held by the whole usage window.
RECURSIVE WindowTotal(_)
WindowTotal(usage) ==
    IF DOMAIN usage = {} THEN 0
    ELSE LET m == CHOOSE k \in DOMAIN usage : TRUE
         IN  usage[m] + WindowTotal([k \in (DOMAIN usage) \ {m} |-> usage[k]])

IsRetry == phase = "ready" /\ cfg.variant = "retry"
IsBucket == phase = "ready" /\ cfg.variant = "token_bucket"

\* RetryAlgorithm.should_throttle(estimated_tokens)
Retry_should_throttle(estimated_tokens) ==
    /\ IsRetry
    /\ LET gate == _check_tpm_limit(cfg, _token_usage, _last_cleanup, now, estimated_tokens)
       IN  /\ _token_usage' = gate.usage
           /\ _last_cleanup' = gate.last_cleanup
           /\ last' = IF gate.delay # None
                      THEN Call("should_throttle", estimated_tokens, NoException, gate.delay,
                                None, gate.delay, _enforce_max_wait(cfg, gate.delay))
                      ELSE Plain("should_throttle", estimated_tokens, Returned(None))
    /\ UNCHANGED <<phase, args, cfg, now, _retry_count, _tokens, _last_refill, answered, recorded>>

\* Mutant of Retry_on_request_success: the retry counter is not reset.
Retry_on_request_success_NoReset(tokens_used) ==
    /\ IsRetry
    /\ WindowTotal(_token_usage) + tokens_used <= MaxUsage
    /\ _token_usage' = IF tokens_used > 0
                       THEN _add_token_usage(_token_usage, now, tokens_used)
                       ELSE _token_usage
    /\ last' = Plain("on_request_success", tokens_used, Returned(None))
    /\ answered' = 0
    /\ recorded' = IF tokens_used > 0 THEN Recorded(recorded, now, tokens_used) ELSE recorded
    /\ UNCHANGED <<phase, args, cfg, now, _last_cleanup, _retry_count, _tokens, _last_refill>>

\* RetryAlgorithm.on_request_success(tokens_used)
Retry_on_request_success(tokens_used) ==
    /\ IsRetry
    /\ WindowTotal(_token_usage) + tokens_used <= MaxUsage
    /\ _retry_count' = 0
    /\ _token_usage' = IF tokens_used > 0
                       THEN _add_token_usage(_token_usage, now, tokens_used)
                       ELSE _token_usage
    /\ last' = Plain("on_request_success", tokens_used, Returned(None))
    /\ answered' = 0
    /\ recorded' = IF tokens_used > 0 THEN Recorded(recorded, now, tokens_used) ELSE recorded
    /\ UNCHANGED <<phase, args, cfg, now, _last_cleanup, _tokens, _last_refill>>

\* Mutant of Retry_on_request_failure: the maximum wait is enforced on the
\* delay before jitter, and the jittered delay is what is returned.
Retry_on_request_failure_CheckBeforeJitter(exception, estimated_tokens) ==
    /\ IsRetry
    /\ LET f == RetryFailure(cfg, _retry_count, exception)
       IN  /\ _retry_count' = f.retry_count
           /\ IF f.delay = None
              THEN last' = Call("on_request_failure", 0, exception, None, None, None,
                                Returned(None))
              ELSE \E delay \in add_jitter(f.delay, cfg.jitter) :
                     last' = Call("on_request_failure", 0, exception, None, f.delay, f.delay,
                                  IF _enforce_max_wait(cfg, f.delay) = RateLimitExceeded
                                  THEN RateLimitExceeded
                                  ELSE Returned(delay))
    /\ answered' = IF last'.outcome = "return" /\ last'.ret # None
                   THEN answered + 1
                   ELSE answered
    /\ answered' <= MaxAnswered
    /\ UNCHANGED <<phase, args, cfg, now, _token_usage, _last_cleanup, _tokens, _last_refill,
                   recorded>>

\* RetryAlgorithm.on_request_failure(exception, estimated_tokens); the
\* estimate is not used.
Retry_on_request_failure(exception, estimated_tokens) ==
    /\ IsRetry
    /\ LET f == RetryFailure(cfg, _retry_count, exception)
       IN  /\ _retry_count' = f.retry_count
           /\ IF f.delay = None
              THEN last' = Call("on_request_failure", 0, exception, None, None, None,
                                Returned(None))
              ELSE \E delay \in add_jitter(f.delay, cfg.jitter) :
                     last' = Call("on_request_failure", 0, exception, None, f.delay, delay,
                                  _enforce_max_wait(cfg, delay))
    /\ answered' = IF last'.outcome = "return" /\ last'.ret # None
                   THEN answered + 1
                   ELSE answered
    /\ answered' <= MaxAnswered
    /\ UNCHANGED <<phase, args, cfg, now, _token_usage, _last_cleanup, _tokens, _last_refill,
                   recorded>>

\* RetryAlgorithm.reset_retry_count()
reset_retry_count ==
    /\ IsRetry
    /\ _retry_count' = 0
    /\ last' = Plain("reset_retry_count", 0, Returned(None))
    /\ UNCHANGED <<phase, args, cfg, now, _token_usage, _last_cleanup, _tokens, _last_refill,
                   answered, recorded>>

\* _get_current_tpm_usage() of either variant, asked for its own sake; the
\* count is returned as the number it is.
current_usage ==
    /\ phase = "ready"
    /\ LET u == _get_current_tpm_usage(_token_usage, _last_cleanup, now)
       IN  /\ _token_usage' = u.usage
           /\ _last_cleanup' = u.last_cleanup
           /\ last' = [Plain("current_usage", 0, Returned(R(u.value)))
                         EXCEPT !.again = (last.op = "current_usage")]
    /\ UNCHANGED <<phase, args, cfg, now, _retry_count, _tokens, _last_refill, answered, recorded>>

\* TokenBucketAlgorithm.should_throttle(estimated_tokens=given), with what the
\* estimator does when it is asked.
Bucket_should_throttle(given, estimator) ==
    /\ IsBucket
    /\ LET estimated_tokens == EstimatedTokens(given, estimator)
           r == BucketShouldThrottle(cfg, _token_usage, _last_cleanup, _tokens,
                                     _last_refill, now, estimated_tokens)
       IN  /\ _token_usage' = r.usage
           /\ _last_cleanup' = r.last_cleanup
           /\ _tokens' = r.tokens
           /\ _last_refill' = r.last_refill
           /\ IF r.tpm_delay # None
              THEN last' = Call("should_throttle", estimated_tokens, NoException,
                                r.tpm_delay, None, r.tpm_delay,
                                _enforce_max_wait(cfg, r.tpm_delay))
              ELSE IF r.wait_time # None
              THEN \E jittered_wait \in add_jitter(r.wait_time, cfg.jitter) :
                     last' = Call("should_throttle", estimated_tokens, NoException, None,
                                  r.wait_time, jittered_wait,
                                  _enforce_max_wait(cfg, jittered_wait))
              ELSE last' = Plain("should_throttle", estimated_tokens, Returned(None))
    /\ UNCHANGED <<phase, args, cfg, now, _retry_count, answered, recorded>>

\* TokenBucketAlgorithm.on_request_success(tokens_used)
Bucket_on_request_success(tokens_used) ==
    /\ IsBucket
    /\ WindowTotal(_token_usage) + tokens_used <= MaxUsage
    /\ _token_usage' = IF tokens_used > 0
                       THEN _add_token_usage(_token_usage, now, tokens_used)
                       ELSE _token_usage
    /\ LET b == _refill_tokens(cfg, _tokens, _last_refill, now)
       IN  /\ _tokens' = b.tokens
           /\ _last_refill' = b.last_refill
    /\ last' = Plain("on_request_success", tokens_used, Returned(None))
    /\ recorded' = IF tokens_used > 0 THEN Recorded(recorded, now, tokens_used) ELSE recorded
    /\ UNCHANGED <<phase, args, cfg, now, _last_cleanup, _retry_count, answered>>

\* TokenBucketAlgorithm.on_request_failure(exception, estimated_tokens)
Bucket_on_request_failure(exception, estimated_tokens) ==
    /\ IsBucket
    /\ LET f == BucketFailure(cfg, _tokens, _last_refill, now, exception, estimated_tokens)
       IN  /\ _tokens' = f.tokens
           /\ _last_refill' = f.last_refill
           /\ IF f.delay = None
              THEN last' = Call("on_request_failure", estimated_tokens, exception, None, None,
                                None, Returned(None))
              ELSE \E delay \in add_jitter(f.delay, cfg.jitter) :
                     last' = Call("on_request_failure", estimated_tokens, exception, None,
                                  f.delay, delay, _enforce_max_wait(cfg, delay))
    /\ UNCHANGED <<phase, args, cfg, now, _token_usage, _last_cleanup, _retry_count,
                   answered, recorded>>

\* TokenBucketAlgorithm.get_tokens_available()
get_tokens_available ==
    /\ IsBucket
    /\ LET b == _refill_tokens(cfg, _tokens, _last_refill, now)
       IN  /\ _tokens' = b.tokens
           /\ _last_refill' = b.last_refill
           /\ last' = [Plain("get_tokens_available", 0, Returned(b.tokens))
                         EXCEPT !.again = (last.op = "get_tokens_available")]
    /\ UNCHANGED <<phase, args, cfg, now, _token_usage, _last_cleanup, _retry_count,
                   answered, recorded>>

\* TokenBucketAlgorithm.reset_bucket()
reset_bucket ==
    /\ IsBucket
    /\ _tokens' = R(cfg.burst_size)
    /\ _last_refill' = now
    /\ last' = Plain("reset_bucket", 0, Returned(None))
    /\ UNCHANGED <<phase, args, cfg, now, _token_usage, _last_cleanup, _retry_count,
                   answered, recorded>>

Next ==
    \/ Construct /\ UNCHANGED callers
    \/ Tick /\ UNCHANGED callers
    \/ current_usage /\ UNCHANGED callers
    \/ \E n \in EstValues : Retry_should_throttle(n) /\ UNCHANGED callers
    \/ \E n \in EstValues : Retry_on_request_success(n) /\ UNCHANGED callers
    \/ \E e \in Exceptions, n \in FailureEstValues : Retry_on_request_failure(e, n) /\ UNCHANGED callers
    \/ reset_retry_count /\ UNCHANGED callers
    \/ \E n \in EstValues \ {0} : Bucket_should_throttle(n, NoEstimate) /\ UNCHANGED callers
    \/ \E est \in EstimatorOutcomes : Bucket_should_throttle(0, est) /\ UNCHANGED callers
    \/ \E e \in Exceptions, n \in FailureEstValues : Bucket_on_request_failure(e, n) /\ UNCHANGED callers
    \/ \E n \in EstValues : Bucket_on_request_success(n) /\ UNCHANGED callers
    \/ get_tokens_available /\ UNCHANGED callers
    \/ reset_bucket /\ UNCHANGED callers

Spec == Init /\ [][Next]_vars

-----------------------------------------------------------------------------
(* The usage window of one instance on a finer clock: tokens are recorded  *)
(* by on_request_success and the current usage is asked for.               *)

\* A RetryAlgorithm constructed with its default arguments at time 0.
InitWindow ==
    /\ phase = "ready"
    /\ args = RetryDefaults
    /\ cfg = StoredConfig(RetryDefaults)
    /\ now = R(0)
    /\ _token_usage = <<>>
    /\ _last_cleanup = R(0)
    /\ _retry_count = 0
    /\ _tokens = None
    /\ _last_refill = None
    /\ last = Plain("__init__", 0, Returned(None))
    /\ answered = 0
    /\ recorded = <<>>
    /\ callers = [c \in OneCaller |-> IdleCaller]

\* Time passes between two calls.
Elapse ==
    /\ RLe(RAdd(now, R(WindowStep)), R(MaxWindowTime))
    /\ now' = RAdd(now, R(WindowStep))
    /\ last' = NoCall
    /\ UNCHANGED <<phase, args, cfg, _token_usage, _last_cleanup, _retry_count,
                   _tokens, _last_refill, answered, recorded>>

NextWindow ==
    \/ Elapse /\ UNCHANGED callers
    \/ current_usage /\ UNCHANGED callers
    \/ \E n \in EstValues \ {0} : Retry_on_request_success(n) /\ UNCHANGED callers

SpecWindow == InitWindow /\ [][NextWindow]_vars

-----------------------------------------------------------------------------
(* The wrapper of decorators.py: callers invoke the wrapped function on one *)
(* shared algorithm instance.  The synchronous and the asynchronous wrapper *)
(* run the same statements; each call of the algorithm is one step.         *)

\* The instances the wrapper is followed on.
InvokerConfigs == {[RetryDefaults EXCEPT !.max_retries = 2], BucketDefaults}

\* The values token_estimate_func returns to the wrapper (0 when there is none).
InvokerEstimates == {0, 1}

InitInvoker ==
    /\ phase = "new"
    /\ args \in InvokerConfigs
    /\ cfg = None
    /\ now = R(0)
    /\ _token_usage = <<>>
    /\ _last_cleanup = None
    /\ _retry_count = None
    /\ _tokens = None
    /\ _last_refill = None
    /\ last = NoCall
    /\ answered = 0
    /\ recorded = <<>>
    /\ callers = [c \in OneCaller |-> IdleCaller]

\* Time passes, up to max_time.
Pass(max_time) ==
    /\ phase = "ready"
    /\ RLe(RAdd(now, R(TickStep)), R(max_time))
    /\ now' = RAdd(now, R(TickStep))
    /\ last' = NoCall
    /\ UNCHANGED <<phase, args, cfg, _token_usage, _last_cleanup, _retry_count,
                   _tokens, _last_refill, answered, recorded, callers>>

\* The algorithm variables a wrapper step without a call of the algorithm leaves alone.
AlgorithmUntouched ==
    UNCHANGED <<phase, args, cfg, now, _token_usage, _last_cleanup, _retry_count,
                _tokens, _last_refill, last, answered, recorded>>

\* The caller record after one more event of its invocation.
Moved(c, pc, event) ==
    [callers[c] EXCEPT !.pc = pc, !.trace = Append(@, event)]

\* The invocation ended: the caller is idle again.
Ended(c, result, event) ==
    [callers[c] EXCEPT !.pc = "idle", !.result = result, !.trace = Append(@, event)]

\* Mutant of W_enter: entering the wrapper resets the retry counter.
W_enter_ResetsCounter(c, estimated_tokens) ==
    /\ phase = "ready"
    /\ callers[c].pc = "idle"
    /\ callers' = [callers EXCEPT ![c] =
                      [IdleCaller EXCEPT !.pc = "check", !.estimated_tokens = estimated_tokens,
                                         !.tokens_sent = callers[c].tokens_sent]]
    /\ _retry_count' = IF IsRetry THEN 0 ELSE _retry_count
    /\ UNCHANGED <<phase, args, cfg, now, _token_usage, _last_cleanup,
                   _tokens, _last_refill, last, answered, recorded>>

\* wrapper() is entered and token_estimate_func returns (decorators.py:57-60).
W_enter(c, estimated_tokens) ==
    /\ phase = "ready"
    /\ callers[c].pc = "idle"
    /\ callers' = [callers EXCEPT ![c] =
                      [IdleCaller EXCEPT !.pc = "check", !.estimated_tokens = estimated_tokens,
                                         !.tokens_sent = callers[c].tokens_sent]]
    /\ AlgorithmUntouched

\* wrapper() is entered and token_estimate_func raises: the invocation ends
\* before any call of the algorithm.
W_estimate_raises(c) ==
    /\ phase = "ready"
    /\ callers[c].pc = "idle"
    /\ callers' = [callers EXCEPT ![c] =
                      [IdleCaller EXCEPT !.result = "estimate_raised",
                                         !.tokens_sent = callers[c].tokens_sent]]
    /\ AlgorithmUntouched

\* pre_delay = algorithm.should_throttle(estimated_tokens=estimated_tokens)
W_should_throttle(c) ==
    /\ callers[c].pc = "check"
    /\ \/ Retry_should_throttle(callers[c].estimated_tokens)
       \/ /\ callers[c].estimated_tokens # 0
          /\ Bucket_should_throttle(callers[c].estimated_tokens, NoEstimate)
       \/ /\ callers[c].estimated_tokens = 0
          /\ \E est \in EstimatorOutcomes : Bucket_should_throttle(0, est)
    /\ callers' = [callers EXCEPT ![c] =
                      IF last'.outcome = "RateLimitExceeded"
                      THEN Ended(c, "RateLimitExceeded", "should_throttle raises")
                      ELSE IF last'.ret = None
                      THEN Moved(c, "attempt", "should_throttle returns None")
                      ELSE Moved(c, "pre_sleep", "should_throttle returns a delay")]

\* time.sleep(pre_delay) or time.sleep(retry_delay) returns; how long it took
\* is left to the clock.
W_sleep(c) ==
    /\ callers[c].pc \in {"pre_sleep", "retry_sleep"}
    /\ callers' = [callers EXCEPT ![c] = Moved(c, "attempt", "sleep")]
    /\ AlgorithmUntouched

\* result = func(*args, **kwargs) returns; actual_tokens is the estimate or
\* result.usage.total_tokens, and keeps the window's total within MaxUsage.
W_attempt_returns(c, actual_tokens) ==
    /\ callers[c].pc = "attempt"
    /\ callers[c].attempts < MaxAttempts
    /\ WindowTotal(_token_usage) + actual_tokens <= MaxUsage
    /\ callers' = [callers EXCEPT ![c] =
                      [Moved(c, "succeeded", "attempt returns")
                          EXCEPT !.actual_tokens = actual_tokens, !.attempts = @ + 1]]
    /\ AlgorithmUntouched

\* func(*args, **kwargs) raises e.
W_attempt_raises(c, e) ==
    /\ callers[c].pc = "attempt"
    /\ callers[c].attempts < MaxAttempts
    /\ callers' = [callers EXCEPT ![c] =
                      [Moved(c, "failed", "attempt raises")
                          EXCEPT !.e = e, !.attempts = @ + 1]]
    /\ AlgorithmUntouched

\* algorithm.on_request_success(tokens_used=actual_tokens); return result
W_on_request_success(c) ==
    /\ callers[c].pc = "succeeded"
    /\ \/ Retry_on_request_success(callers[c].actual_tokens)
       \/ Bucket_on_request_success(callers[c].actual_tokens)
    /\ callers' = [callers EXCEPT ![c] =
                      [Ended(c, "returned", "on_request_success") EXCEPT !.tokens_sent =
                          IF callers[c].actual_tokens > 0
                          THEN Recorded(@, now, callers[c].actual_tokens)
                          ELSE @]]

\* Mutant of W_on_request_failure: the attempt is repeated whatever
\* on_request_failure returns.
W_on_request_failure_AlwaysRetries(c) ==
    /\ callers[c].pc = "failed"
    /\ \/ Retry_on_request_failure(callers[c].e, callers[c].estimated_tokens)
       \/ Bucket_on_request_failure(callers[c].e, callers[c].estimated_tokens)
    /\ callers' = [callers EXCEPT ![c] =
                      IF last'.outcome = "RateLimitExceeded"
                      THEN Ended(c, "RateLimitExceeded", "on_request_failure raises")
                      ELSE IF last'.ret = None
                      THEN Moved(c, "retry_sleep", "on_request_failure returns None")
                      ELSE Moved(c, "retry_sleep", "on_request_failure returns a delay")]

\* retry_delay = algorithm.on_request_failure(e, estimated_tokens=estimated_tokens);
\* raise when it is None.
W_on_request_failure(c) ==
    /\ callers[c].pc = "failed"
    /\ \/ Retry_on_request_failure(callers[c].e, callers[c].estimated_tokens)
       \/ Bucket_on_request_failure(callers[c].e, callers[c].estimated_tokens)
    /\ callers' = [callers EXCEPT ![c] =
                      IF last'.outcome = "RateLimitExceeded"
                      THEN Ended(c, "RateLimitExceeded", "on_request_failure raises")
                      ELSE IF last'.ret = None
                      THEN Ended(c, "reraised", "on_request_failure returns None")
                      ELSE Moved(c, "retry_sleep", "on_request_failure returns a delay")]

NextInvoker ==
    \/ Construct /\ UNCHANGED callers
    \/ Pass(MaxInvokerTime)
    \/ \E c \in DOMAIN callers, n \in InvokerEstimates : W_enter(c, n)
    \/ \E c \in DOMAIN callers : W_estimate_raises(c)
    \/ \E c \in DOMAIN callers : W_should_throttle(c)
    \/ \E c \in DOMAIN callers : W_sleep(c)
    \/ \E c \in DOMAIN callers, n \in InvokerEstimates :
          W_attempt_returns(c, IF n = 0 THEN callers[c].estimated_tokens ELSE n)
    \/ \E c \in DOMAIN callers, e \in Exceptions : W_attempt_raises(c, e)
    \/ \E c \in DOMAIN callers : W_on_request_success(c)
    \/ \E c \in DOMAIN callers : W_on_request_failure(c)

SpecInvoker == InitInvoker /\ [][NextInvoker]_vars

\* The next statement of caller c's invocation under way: the wrapper is
\* sequential code, the wrapped function returns or raises, a sleep ends.
InvocationStep(c) ==
    \/ W_should_throttle(c)
    \/ W_sleep(c)
    \/ \E n \in InvokerEstimates :
          W_attempt_returns(c, IF n = 0 THEN callers[c].estimated_tokens ELSE n)
    \/ \E e \in Exceptions : W_attempt_raises(c, e)
    \/ W_on_request_success(c)
    \/ W_on_request_failure(c)

\* One caller on a RetryAlgorithm.
InitRetryInvoker ==
    /\ InitInvoker
    /\ args.variant = "retry"

\* An invocation under way is not left unfinished.
SpecRetryInvoker ==
    InitRetryInvoker /\ [][NextInvoker]_vars /\ \A c \in OneCaller : WF_vars(InvocationStep(c))

-----------------------------------------------------------------------------
(* Several callers share one instance; every call of the algorithm is one   *)
(* step, as it is between two awaits of the asynchronous wrapper or under a *)
(* lock around each call.                                                   *)

\* The exceptions the wrapped function raises under sharing.
SharedExceptions == {e \in Exceptions : e.retry_after = None}

InitShared ==
    /\ phase = "new"
    /\ args \in InvokerConfigs
    /\ cfg = None
    /\ now = R(0)
    /\ _token_usage = <<>>
    /\ _last_cleanup = None
    /\ _retry_count = None
    /\ _tokens = None
    /\ _last_refill = None
    /\ last = NoCall
    /\ answered = 0
    /\ recorded = <<>>
    /\ callers = [c \in Callers |-> IdleCaller]

NextShared ==
    \/ Construct /\ UNCHANGED callers
    \/ Pass(MaxSharedTime)
    \/ \E c \in DOMAIN callers : W_enter(c, 1)
    \/ \E c \in DOMAIN callers : W_should_throttle(c)
    \/ \E c \in DOMAIN callers : W_sleep(c)
    \/ \E c \in DOMAIN callers : W_attempt_returns(c, callers[c].estimated_tokens)
    \/ \E c \in DOMAIN callers, e \in SharedExceptions : W_attempt_raises(c, e)
    \/ \E c \in DOMAIN callers : W_on_request_success(c)
    \/ \E c \in DOMAIN callers : W_on_request_failure(c)

SpecShared == InitShared /\ [][NextShared]_vars

-----------------------------------------------------------------------------
(* Properties. *)

\* A step that is a call of on_request_failure with a recognized rate-limit
\* error that carries no server-provided delay.
PlainRateLimitFailure ==
    /\ last'.op = "on_request_failure"
    /\ last'.exc.rate_limit
    /\ last'.exc.retry_after = None

\* C1: RetryAlgorithm.on_request_failure on a recognized rate-limit error
\* without server delay: while retry_count < max_retries it counts the failure
\* and the delay before jitter is min(base_delay * backoff_multiplier^(k-1),
\* max_delay) for the k-th failure counted; at retry_count = max_retries it
\* returns None.  With max_retries=3, base_delay=1, backoff_multiplier=2,
\* max_delay=60 the delays are 1, 2, 4.
C1_BackoffSequence ==
    [][ (IsRetry /\ PlainRateLimitFailure) =>
          IF _retry_count < cfg.max_retries
          THEN /\ _retry_count' = _retry_count + 1
               /\ last'.raw = RMin(RMul(cfg.base_delay,
                                        RPow(cfg.backoff_multiplier, _retry_count' - 1)),
                                   cfg.max_delay)
               /\ (cfg = RetryDefaults =>
                     last'.raw = CASE _retry_count' = 1 -> R(1)
                                   [] _retry_count' = 2 -> R(2)
                                   [] _retry_count' = 3 -> R(4))
          ELSE /\ _retry_count' = _retry_count
               /\ last'.raw = None
               /\ last'.outcome = "return"
               /\ last'.ret = None ]_vars

\* C1's case: with the example configuration the fourth consecutive failure
\* has returned None.
C1_Witness ==
    /\ IsRetry
    /\ cfg = RetryDefaults
    /\ last.op = "on_request_failure"
    /\ last.exc.rate_limit
    /\ last.exc.retry_after = None
    /\ _retry_count = 3
    /\ last.outcome = "return"
    /\ last.ret = None

\* C2 as stated: on_request_success leaves retry_count = 0, and (max_retries
\* >= 1) the next recognized rate-limit failure without server delay yields
\* base_delay before jitter.
C2_Original ==
    [][ IsRetry =>
          /\ (last'.op = "on_request_success" => _retry_count' = 0)
          /\ (cfg.max_retries >= 1 /\ last.op = "on_request_success" /\ PlainRateLimitFailure
                => last'.raw = cfg.base_delay) ]_vars

\* C2 (amended): on_request_success leaves retry_count = 0 from any
\* retry_count, and (max_retries >= 1) the next recognized rate-limit failure
\* without server delay is counted as the first and yields min(base_delay,
\* max_delay) before jitter, which is base_delay whenever base_delay <= max_delay.
C2_SuccessResets ==
    [][ IsRetry =>
          /\ (last'.op = "on_request_success" => _retry_count' = 0)
          /\ ((/\ cfg.max_retries >= 1
               /\ (last.op = "on_request_success" \/ _retry_count = 0)
               /\ PlainRateLimitFailure)
                => /\ _retry_count' = 1
                   /\ last'.raw = RMin(cfg.base_delay, cfg.max_delay)
                   /\ (RLe(cfg.base_delay, cfg.max_delay) => last'.raw = cfg.base_delay)) ]_vars

\* C2's case: a success has just reset the counter of an instance whose
\* base_delay exceeds max_delay.
C2_Witness ==
    /\ IsRetry
    /\ cfg.max_retries >= 1
    /\ RLt(cfg.max_delay, cfg.base_delay)
    /\ last.op = "on_request_success"
    /\ _retry_count = 0

\* C3: for both variants, on_request_failure with an error that is not a
\* rate-limit condition returns None and changes neither retry_count, nor the
\* bucket (tokens, last_refill), nor the usage window.
C3_UnclassifiedNotRetried ==
    [][ (last'.op = "on_request_failure" /\ ~last'.exc.rate_limit) =>
          /\ last'.outcome = "return"
          /\ last'.ret = None
          /\ UNCHANGED <<_retry_count, _tokens, _last_refill, _token_usage, _last_cleanup>> ]_vars

\* C3's case: a token bucket whose last refill lies in the past and which is
\* not full has just been given an unclassified error.
C3_Witness ==
    /\ IsBucket
    /\ last.op = "on_request_failure"
    /\ ~last.exc.rate_limit
    /\ RLt(_last_refill, now)
    /\ RLt(_tokens, R(cfg.burst_size))

\* C4: a delay handed to _enforce_max_wait that is at most
\* max_wait_minutes * 60 seconds (equality included) is returned unchanged; a
\* strictly greater one ends the call in RateLimitExceeded and returns no delay.
C4_EnforceMaxWait ==
    (phase = "ready" /\ last.checked # None) =>
        IF RLe(last.checked, RMul(cfg.max_wait_minutes, R(60)))
        THEN last.outcome = "return" /\ last.ret = last.checked
        ELSE last.outcome = "RateLimitExceeded" /\ last.ret = None

\* C4's case: a delay of exactly max_wait_minutes * 60 seconds has been accepted.
C4_Witness ==
    /\ phase = "ready"
    /\ last.checked = RMul(cfg.max_wait_minutes, R(60))
    /\ last.outcome = "return"
    /\ last.ret = last.checked

\* The count of the current minute's bucket of the usage window.
CurrentMinuteUsage ==
    LET current_minute == now[1] \div (60 * now[2])
    IN  IF current_minute \in DOMAIN _token_usage THEN _token_usage[current_minute] ELSE 0

\* C5: with effective_limit = floor(tpm_limit * safety_margin), the TPM check
\* of should_throttle answers with a delay if and only if the current minute's
\* usage plus estimated_tokens exceeds effective_limit (reaching it exactly is
\* admitted); the usage of other minutes does not count.
C5_CheckLimit ==
    (phase = "ready" /\ last.op = "should_throttle") =>
        LET effective_limit ==
                (cfg.tpm_limit * cfg.safety_margin[1]) \div cfg.safety_margin[2]
        IN  (last.gate # None) <=> (CurrentMinuteUsage + last.est > effective_limit)

\* C5's case: a request that exactly reaches the effective limit has passed the
\* check while the window as a whole, with an earlier minute, holds more.
C5_Witness ==
    /\ phase = "ready"
    /\ last.op = "should_throttle"
    /\ last.gate = None
    /\ last.est > 0
    /\ CurrentMinuteUsage + last.est =
           (cfg.tpm_limit * cfg.safety_margin[1]) \div cfg.safety_margin[2]
    /\ WindowTotal(_token_usage) + last.est >
           (cfg.tpm_limit * cfg.safety_margin[1]) \div cfg.safety_margin[2]

\* C6 as stated: should_throttle changes neither retry_count nor the bucket;
\* the bucket level after the call is not lower than before.
C6_Original ==
    [][ (phase = "ready" /\ last'.op = "should_throttle") =>
          /\ _retry_count' = _retry_count
          /\ (IsBucket => RLe(_tokens, _tokens')) ]_vars

\* The usage window changed by nothing but the removal of buckets older than
\* two minutes, which records the cleanup time.
OnlyLazyCleanup ==
    /\ DOMAIN _token_usage' \subseteq DOMAIN _token_usage
    /\ \A minute \in DOMAIN _token_usage' : _token_usage'[minute] = _token_usage[minute]
    /\ \A minute \in (DOMAIN _token_usage) \ (DOMAIN _token_usage') :
          minute < (now[1] \div (60 * now[2])) - 2
    /\ (_token_usage' # _token_usage => _last_cleanup' = now)

\* C6 (amended): should_throttle never changes retry_count and changes the
\* usage window only through lazy cleanup.  RetryAlgorithm has no other state.
\* TokenBucketAlgorithm leaves the bucket untouched when the TPM gate answers
\* with a delay; otherwise it refills the bucket to min(burst_size, tokens +
\* elapsed * refill_rate) and, when it admits the request, takes exactly
\* estimated_tokens from it; when it answers with a bucket wait the refilled
\* level is kept.
C6_ShouldThrottleFrame ==
    [][ (phase = "ready" /\ last'.op = "should_throttle") =>
          /\ _retry_count' = _retry_count
          /\ OnlyLazyCleanup
          /\ (IsBucket =>
                IF last'.gate # None
                THEN UNCHANGED <<_tokens, _last_refill>>
                ELSE LET refilled ==
                             RMin(R(cfg.burst_size),
                                  RAdd(_tokens, RMul(RSub(now, _last_refill), cfg.refill_rate)))
                     IN  /\ _last_refill' = now
                         /\ IF last'.raw = None
                            THEN _tokens' = RSub(refilled, R(last'.est))
                            ELSE _tokens' = refilled /\ RLt(refilled, R(last'.est))) ]_vars

\* C6's case: a token bucket has just admitted a request of at least one
\* token and holds less than its capacity.
C6_Witness ==
    /\ IsBucket
    /\ last.op = "should_throttle"
    /\ last.gate = None
    /\ last.raw = None
    /\ last.est > 0
    /\ RLt(_tokens, R(cfg.burst_size))

\* C7: the level of a token bucket stays within 0 <= tokens <= burst_size in
\* every state reached from construction by should_throttle,
\* on_request_success, on_request_failure, get_tokens_available and
\* reset_bucket with non-negative estimates and a clock that never goes back.
C7_TokensInRange ==
    IsBucket => (RLe(R(0), _tokens) /\ RLe(_tokens, R(cfg.burst_size)))

\* C7's case: time has passed since construction and an admitted request has
\* just emptied the bucket.
C7_Witness ==
    /\ IsBucket
    /\ last.op = "should_throttle"
    /\ last.gate = None
    /\ last.raw = None
    /\ last.est > 0
    /\ RLt(R(0), now)
    /\ _tokens = R(0)

\* C8: when should_throttle finds the refilled bucket short of n tokens, the
\* wait it computes is (n - tokens) / refill_rate, and once that many seconds
\* have passed with nothing else consumed, consume(n) succeeds.
C8_WaitThenConsume ==
    (IsBucket /\ last.op = "should_throttle" /\ last.gate = None /\ last.raw # None) =>
        /\ RLt(_tokens, R(last.est))
        /\ last.raw = RDiv(RSub(R(last.est), _tokens), cfg.refill_rate)
        /\ _consume_tokens(cfg, _tokens, _last_refill, RAdd(now, last.raw), last.est).ok

\* C9 as stated: whenever the TPM gate of TokenBucketAlgorithm.should_throttle
\* signals a delay, the call returns that delay, the wait to the next minute
\* boundary, and the bucket is neither refilled nor debited.
C9_Original ==
    [][ (IsBucket /\ last'.op = "should_throttle" /\ last'.gate # None) =>
          /\ last'.gate = RSub(R(60), RMod(now, 60))
          /\ last'.outcome = "return"
          /\ last'.ret = last'.gate
          /\ UNCHANGED <<_tokens, _last_refill>> ]_vars

\* C9 (amended): whenever the TPM gate of TokenBucketAlgorithm.should_throttle
\* signals a delay, the wait to the next minute boundary, the bucket is neither
\* refilled nor debited and no bucket wait is computed; the call returns the
\* gate's delay unless that delay exceeds max_wait_minutes * 60 seconds, in
\* which case the call ends in RateLimitExceeded.
C9_GateBeforeBucket ==
    [][ (IsBucket /\ last'.op = "should_throttle" /\ last'.gate # None) =>
          /\ last'.gate = RSub(R(60), RMod(now, 60))
          /\ last'.raw = None
          /\ IF RLt(RMul(cfg.max_wait_minutes, R(60)), last'.gate)
             THEN last'.outcome = "RateLimitExceeded" /\ last'.ret = None
             ELSE last'.outcome = "return" /\ last'.ret = last'.gate
          /\ UNCHANGED <<_tokens, _last_refill>> ]_vars

\* C9's case: the gate's delay has been returned by a call during which the
\* bucket, had it been refilled, would still have been short of the request.
C9_Witness ==
    /\ IsBucket
    /\ last.op = "should_throttle"
    /\ last.gate # None
    /\ last.outcome = "return"
    /\ last.ret = last.gate
    /\ RLt(_last_refill, now)
    /\ _calculate_wait_time(cfg, _tokens, _last_refill, now, last.est).wait # R(0)

\* A numeric bound of the constructor arguments a is violated.
BoundViolated(a) ==
    \/ a.tpm_limit <= 0
    \/ RLt(a.safety_margin, R(0))
    \/ RLt(R(1), a.safety_margin)
    \/ RLe(a.max_wait_minutes, R(0))
    \/ /\ a.variant = "retry"
       /\ \/ a.max_retries < 0
          \/ RLe(a.base_delay, R(0))
          \/ RLe(a.max_delay, R(0))
          \/ RLe(a.backoff_multiplier, R(0))
    \/ /\ a.variant = "token_bucket"
       /\ \/ a.burst_size <= 0
          \/ RLe(a.refill_rate, R(0))

\* C10: construction ends in ConfigurationError if and only if a numeric
\* bound is violated (so safety_margin = 0, safety_margin = 1 and
\* max_retries = 0 are accepted); a constructed instance holds its arguments
\* as given, none clamped; no call other than construction ends in
\* ConfigurationError.
C10_ConfigurationError ==
    /\ (phase # "new") => ((phase = "config_error") <=> BoundViolated(args))
    /\ (last.op = "__init__") =>
           ((last.outcome = "ConfigurationError") <=> BoundViolated(args))
    /\ (phase = "ready") => (cfg = args)
    /\ (last.outcome = "ConfigurationError") => (last.op = "__init__")
    /\ (phase = "config_error") => (last.outcome = "ConfigurationError")

\* C10's case: an instance constructed with safety_margin = 0 and
\* max_retries = 0 has been through a failed request.
C10_Witness ==
    /\ phase = "ready"
    /\ cfg.safety_margin = R(0)
    /\ cfg.max_retries = 0
    /\ last.op = "on_request_failure"
    /\ last.exc.rate_limit

\* C11: a read accessor, get_tokens_available or current_usage, called a
\* second time with no call and no time in between returns what the first
\* call returned and leaves the bucket and the usage window as the first call
\* left them.
C11_AccessorsIdempotent ==
    [][ (/\ phase = "ready"
         /\ last.op \in {"get_tokens_available", "current_usage"}
         /\ last'.op = last.op) =>
            /\ last'.ret = last.ret
            /\ UNCHANGED <<_tokens, _last_refill, _token_usage, _last_cleanup>> ]_vars

\* C11's case: time has passed, the bucket is below its capacity, and
\* get_tokens_available has been called twice in a row.
C11_Witness ==
    /\ IsBucket
    /\ last.op = "get_tokens_available"
    /\ last.again
    /\ RLt(R(0), now)
    /\ RLt(_tokens, R(cfg.burst_size))
    /\ last.ret = _tokens

\* What a step of a RetryAlgorithm does to its counter: it stays within
\* 0 .. max_retries; on_request_failure at retry_count >= max_retries returns
\* nothing and leaves it; a failure answered with a delay raises it by one;
\* with max_retries = 0 no failure has been answered with a delay.
RetryCounterStep ==
    (phase' = "ready" /\ cfg'.variant = "retry") =>
        /\ 0 <= _retry_count'
        /\ _retry_count' <= cfg'.max_retries
        /\ (IsRetry /\ last'.op = "on_request_failure" /\ _retry_count >= cfg.max_retries) =>
               (last'.outcome = "return" /\ last'.ret = None /\ _retry_count' = _retry_count)
        /\ (IsRetry /\ last'.op = "on_request_failure" /\ last'.ret # None) =>
               (_retry_count' = _retry_count + 1)
        /\ (cfg'.max_retries = 0) => (answered' = 0)

\* C12 as stated: the counter stays within 0 .. max_retries, an exhausted
\* budget makes on_request_failure return nothing without counting, and since
\* the last success at most max_retries failures were answered with a delay.
C12_Original ==
    [][ /\ RetryCounterStep
        /\ (phase' = "ready" /\ cfg'.variant = "retry") => (answered' <= cfg'.max_retries)
      ]_vars

\* C12 (amended): the counter stays within 0 .. max_retries, an exhausted
\* budget makes on_request_failure return nothing without counting, every
\* failure answered with a delay raises the counter by one, and the counter is
\* lowered only by on_request_success and reset_retry_count, which set it to
\* 0: at most max_retries failures are answered with a delay between two of
\* these resets, and none ever with max_retries = 0.
C12_RetryBudget ==
    [][ /\ RetryCounterStep
        /\ (IsRetry /\ _retry_count' < _retry_count) =>
               (last'.op \in {"on_request_success", "reset_retry_count"} /\ _retry_count' = 0)
      ]_vars

\* C12's case: the budget of a RetryAlgorithm with max_retries > 0 is used up
\* and the failure that followed was answered with nothing.
C12_Witness ==
    /\ IsRetry
    /\ cfg.max_retries > 0
    /\ _retry_count = cfg.max_retries
    /\ answered = cfg.max_retries
    /\ last.op = "on_request_failure"
    /\ last.exc.rate_limit
    /\ last.outcome = "return"
    /\ last.ret = None

\* C13: a delay returned by should_throttle or on_request_failure of either
\* variant is the value that was handed to the max-wait check, which is the
\* delay after jitter, and lies within 0 .. max_wait_minutes * 60 seconds; a
\* jittered delay above that ceiling is not returned: the call ends in
\* RateLimitExceeded.
C13_ReturnedDelayChecked ==
    (phase = "ready" /\ last.op \in {"should_throttle", "on_request_failure"}) =>
        LET ceiling == RMul(cfg.max_wait_minutes, R(60))
        IN  /\ (last.outcome = "return" /\ last.ret # None) =>
                   /\ last.checked = last.ret
                   /\ RLe(R(0), last.ret)
                   /\ RLe(last.ret, ceiling)
            /\ (last.raw # None) => (last.checked \in add_jitter(last.raw, cfg.jitter))
            /\ (last.checked # None /\ RLt(ceiling, last.checked)) =>
                   (last.outcome = "RateLimitExceeded" /\ last.ret = None)

\* C13's case: a delay within the ceiling before jitter was pushed above it
\* by the jitter, and the call ended in RateLimitExceeded.
C13_Witness ==
    /\ phase = "ready"
    /\ last.op = "on_request_failure"
    /\ last.raw # None
    /\ RLe(last.raw, RMul(cfg.max_wait_minutes, R(60)))
    /\ RLt(RMul(cfg.max_wait_minutes, R(60)), last.checked)
    /\ last.outcome = "RateLimitExceeded"

\* C14: RetryAlgorithm.on_request_failure on a recognized rate-limit error
\* that carries a server-provided delay: while retry_count < max_retries the
\* counter is raised by one and the delay before jitter is the server's delay
\* as given, neither the backoff value nor capped by max_delay; at
\* retry_count >= max_retries the call returns nothing and counts nothing.
C14_ServerDelayVerbatim ==
    [][ (/\ IsRetry
         /\ last'.op = "on_request_failure"
         /\ last'.exc.rate_limit
         /\ last'.exc.retry_after # None) =>
            IF _retry_count >= cfg.max_retries
            THEN /\ last'.raw = None
                 /\ last'.outcome = "return"
                 /\ last'.ret = None
                 /\ _retry_count' = _retry_count
            ELSE /\ last'.raw = last'.exc.retry_after
                 /\ _retry_count' = _retry_count + 1 ]_vars

\* C14's case: a server delay above max_delay, and different from the backoff
\* value of that failure, has been used and returned.
C14_Witness ==
    /\ IsRetry
    /\ last.op = "on_request_failure"
    /\ last.exc.retry_after # None
    /\ last.raw = last.exc.retry_after
    /\ RLt(cfg.max_delay, last.raw)
    /\ last.raw # BackoffDelay(cfg, _retry_count)
    /\ last.outcome = "return"
    /\ last.ret = last.raw

\* C15: a should_throttle call of a token bucket that passes the TPM gate
\* refills the bucket first; if the refilled level is at least
\* estimated_tokens the request is admitted and the level drops by exactly
\* estimated_tokens; otherwise a bucket delay is computed and the level keeps
\* its refilled value.
C15_ConsumeExactly ==
    [][ (IsBucket /\ last'.op = "should_throttle" /\ last'.gate = None) =>
          LET refilled ==
                  RMin(R(cfg.burst_size),
                       RAdd(_tokens, RMul(RSub(now, _last_refill), cfg.refill_rate)))
          IN  /\ _last_refill' = now
              /\ IF RLe(R(last'.est), refilled)
                 THEN /\ last'.raw = None
                      /\ last'.outcome = "return"
                      /\ last'.ret = None
                      /\ _tokens' = RSub(refilled, R(last'.est))
                 ELSE /\ last'.raw # None
                      /\ _tokens' = refilled ]_vars

\* C15's case: a bucket that had been emptied and partly refilled by the
\* passing of time was short of the request, and holds its refilled level.
C15_Witness ==
    /\ IsBucket
    /\ last.op = "should_throttle"
    /\ last.gate = None
    /\ last.raw # None
    /\ _last_refill = now
    /\ RLt(R(0), now)
    /\ RLt(R(0), _tokens)
    /\ RLt(_tokens, R(last.est))
    /\ last.est <= cfg.burst_size

\* C16: TokenBucketAlgorithm.on_request_failure on a recognized rate-limit
\* error always computes a delay, however many failures came before; without
\* a server-provided delay the delay before jitter is the wait for
\* estimated_tokens on the refilled bucket, or 1 second when that wait is
\* zero, hence strictly positive; the call never lowers the bucket level.
C16_BucketFailureDelay ==
    [][ (IsBucket /\ last'.op = "on_request_failure" /\ last'.exc.rate_limit) =>
          LET refilled ==
                  RMin(R(cfg.burst_size),
                       RAdd(_tokens, RMul(RSub(now, _last_refill), cfg.refill_rate)))
              wait_time ==
                  IF RLe(R(last'.est), refilled)
                  THEN R(0)
                  ELSE RDiv(RSub(R(last'.est), refilled), cfg.refill_rate)
          IN  /\ last'.raw # None
              /\ (last'.outcome = "return") => (last'.ret # None)
              /\ RLe(_tokens, _tokens')
              /\ (last'.exc.retry_after = None) =>
                     /\ last'.raw = (IF wait_time = R(0) THEN R(1) ELSE wait_time)
                     /\ RLt(R(0), last'.raw)
                     /\ _tokens' = refilled
                     /\ _last_refill' = now ]_vars

\* C16's case: the bucket held enough tokens for the failed request, so the
\* wait was zero and the delay before jitter is 1 second.
C16_Witness ==
    /\ IsBucket
    /\ last.op = "on_request_failure"
    /\ last.exc.rate_limit
    /\ last.exc.retry_after = None
    /\ last.est > 0
    /\ RLe(R(last.est), _tokens)
    /\ last.raw = R(1)
    /\ last.outcome = "return"

\* C17: the count the usage window holds for the current minute is the sum
\* of the tokens recorded in that minute, whatever that sum, and it is what a
\* current_usage query returns: tokens recorded in other minutes do not
\* count, whether or not they are still in the window.
C17_UsageIsSumRecorded ==
    (phase = "ready") =>
        LET m == now[1] \div (60 * now[2])
            sum == IF m \in DOMAIN recorded THEN recorded[m] ELSE 0
        IN  /\ CurrentMinuteUsage = sum
            /\ (last.op = "current_usage") => (last.ret = R(sum))
            /\ \A k \in DOMAIN _token_usage : _token_usage[k] = recorded[k]

\* C17's case: a query returned the tokens recorded in the current minute
\* while the window still held tokens recorded in the minute before.
C17_Witness ==
    /\ phase = "ready"
    /\ last.op = "current_usage"
    /\ now[1] \div (60 * now[2]) >= 1
    /\ (now[1] \div (60 * now[2])) - 1 \in DOMAIN _token_usage
    /\ CurrentMinuteUsage > 0
    /\ last.ret = R(CurrentMinuteUsage)
    /\ WindowTotal(_token_usage) > CurrentMinuteUsage

\* C18: a current_usage query made less than 30 seconds after the last
\* cleanup (or after construction) removes no bucket and leaves the cleanup
\* time; a query made 30 seconds or more after it removes exactly the buckets
\* of the minutes below current_minute - 2, keeps the others as they are, and
\* records the time of the query as the cleanup time.
C18_LazyCleanup ==
    [][ (phase = "ready" /\ last'.op = "current_usage") =>
          LET current_minute == now[1] \div (60 * now[2])
          IN  IF RLt(RSub(now, _last_cleanup), R(30))
              THEN UNCHANGED <<_token_usage, _last_cleanup>>
              ELSE /\ _last_cleanup' = now
                   /\ DOMAIN _token_usage' =
                          {k \in DOMAIN _token_usage : k >= current_minute - 2}
                   /\ \A k \in DOMAIN _token_usage' : _token_usage'[k] = _token_usage[k]
      ]_vars

\* C18's case: a query made less than 30 seconds after a cleanup has left a
\* bucket that is older than two minutes in the window.
C18_Witness ==
    /\ phase = "ready"
    /\ last.op = "current_usage"
    /\ RLt(_last_cleanup, now)
    /\ RLt(RSub(now, _last_cleanup), R(30))
    /\ \E k \in DOMAIN _token_usage : k < (now[1] \div (60 * now[2])) - 2

\* What an invocation of the wrapped function may do, event after event:
\* should_throttle comes first and only first; an attempt follows
\* should_throttle returning None or a sleep; a sleep follows a returned
\* delay and nothing else follows one; on_request_failure is what follows an
\* attempt that raised and on_request_success what follows one that returned;
\* nothing follows on_request_success, an on_request_failure that returned
\* None, or a call that raised.
FollowsProtocol(trace) ==
    \A i \in 1 .. Len(trace) :
        LET event == trace[i]
            before == IF i = 1 THEN "entry" ELSE trace[i - 1]
        IN  /\ (event \in {"should_throttle returns None", "should_throttle returns a delay",
                           "should_throttle raises"}) <=> (i = 1)
            /\ (event \in {"attempt returns", "attempt raises"}) <=>
                   (before \in {"should_throttle returns None", "sleep"})
            /\ (event = "sleep") <=>
                   (before \in {"should_throttle returns a delay",
                                "on_request_failure returns a delay"})
            /\ (event \in {"on_request_failure returns None",
                           "on_request_failure returns a delay",
                           "on_request_failure raises"}) <=> (before = "attempt raises")
            /\ (event = "on_request_success") <=> (before = "attempt returns")

\* The events that end an invocation, with the way it ends.
EndOf(event) ==
    CASE event = "on_request_success" -> "returned"
      [] event = "on_request_failure returns None" -> "reraised"
      [] event \in {"should_throttle raises", "on_request_failure raises"} -> "RateLimitExceeded"
      [] OTHER -> "none"

\* C19: within one invocation of the wrapped function should_throttle is
\* called first, before any attempt; an attempt that raised is followed by
\* one on_request_failure call and no on_request_success call; a returned
\* delay is followed by a sleep and another attempt; on_request_failure
\* returning None ends the invocation by re-raising, with no further attempt;
\* an attempt that returned is followed by one on_request_success call, after
\* which the invocation returns.
C19_InvokerProtocol ==
    \A c \in DOMAIN callers :
        LET trace == callers[c].trace
            ended == IF trace = <<>> THEN "none" ELSE EndOf(trace[Len(trace)])
        IN  /\ FollowsProtocol(trace)
            /\ (callers[c].pc = "idle" /\ trace # <<>>) =>
                   (ended # "none" /\ callers[c].result = ended)
            /\ (callers[c].pc # "idle") => (ended = "none")
            /\ (callers[c].pc \in {"attempt", "succeeded", "failed"}) => (trace # <<>>)

\* C19's case: an invocation slept before its first attempt, had an attempt
\* fail, slept for the returned delay, and returned after another attempt.
C19_Witness ==
    \E c \in DOMAIN callers :
        LET trace == callers[c].trace
        IN  /\ callers[c].pc = "idle"
            /\ callers[c].result = "returned"
            /\ trace[1] = "should_throttle returns a delay"
            /\ \E i \in 1 .. Len(trace) : trace[i] = "on_request_failure returns a delay"

\* The tokens the callers in S reported to on_request_success in minute m.
RECURSIVE TokensSent(_, _)
TokensSent(S, m) ==
    IF S = {} THEN 0
    ELSE LET c == CHOOSE x \in S : TRUE
         IN  (IF m \in DOMAIN callers[c].tokens_sent THEN callers[c].tokens_sent[m] ELSE 0)
             + TokensSent(S \ {c}, m)

\* C20: with several callers on one instance and every call of the algorithm
\* one step, the bucket level stays within 0 .. burst_size, retry_count
\* within 0 .. max_retries, and the usage of the current minute is the sum of
\* the tokens all callers reported in that minute.
C20_SharedInstance ==
    (phase = "ready") =>
        /\ IsBucket => (RLe(R(0), _tokens) /\ RLe(_tokens, R(cfg.burst_size)))
        /\ IsRetry => (0 <= _retry_count /\ _retry_count <= cfg.max_retries)
        /\ CurrentMinuteUsage = TokensSent(DOMAIN callers, now[1] \div (60 * now[2]))

\* C20's case: two callers have each reported tokens in the current minute
\* while a third call, of one of them, is under way.
C20_Witness ==
    /\ phase = "ready"
    /\ \A c \in DOMAIN callers :
           /\ (now[1] \div (60 * now[2])) \in DOMAIN callers[c].tokens_sent
    /\ Cardinality(DOMAIN callers) > 1
    /\ \E c \in DOMAIN callers : callers[c].pc = "failed"

\* C21: with one caller on a RetryAlgorithm an invocation of the wrapped
\* function makes at most max_retries + 1 attempts, whatever the attempts do,
\* and always ends: it returns the result, re-raises the error, or ends in
\* RateLimitExceeded.
C21_InvocationTerminates ==
    /\ [](\A c \in DOMAIN callers :
              (phase = "ready") => (callers[c].attempts <= cfg.max_retries + 1))
    /\ \A c \in OneCaller :
           (callers[c].pc # "idle") ~>
               (callers[c].pc = "idle"
                /\ callers[c].result \in {"returned", "reraised", "RateLimitExceeded"})

\* C21's case: an invocation has ended by re-raising after max_retries + 1
\* attempts, every one of which failed with a recognized rate-limit error.
C21_Witness ==
    \E c \in DOMAIN callers :
        /\ IsRetry
        /\ cfg.max_retries > 0
        /\ callers[c].pc = "idle"
        /\ callers[c].result = "reraised"
        /\ callers[c].e.rate_limit
        /\ callers[c].attempts = cfg.max_retries + 1
        /\ \A i \in 1 .. Len(callers[c].trace) : callers[c].trace[i] # "attempt returns"

\* C22: retry_count is changed only by on_request_failure, which raises it
\* by one, and by on_request_success and reset_retry_count, which set it to
\* 0; entering or leaving the wrapper does not change it.  At
\* retry_count = max_retries a recognized rate-limit failure gets nothing,
\* whichever invocation it belongs to, and the invocation re-raises.
C22_BudgetPerInstance ==
    [][ IsRetry =>
          /\ (_retry_count' # _retry_count) =>
                 \/ last'.op = "on_request_failure" /\ _retry_count' = _retry_count + 1
                 \/ last'.op \in {"on_request_success", "reset_retry_count"}
                    /\ _retry_count' = 0
          /\ \A c \in DOMAIN callers :
                 /\ (callers[c].pc = "idle" \/ callers'[c].pc = "idle") =>
                        (_retry_count' = _retry_count \/ callers'[c].result = "returned")
                 /\ (/\ callers[c].pc = "failed"
                     /\ callers'[c].pc # "failed"
                     /\ callers[c].e.rate_limit
                     /\ _retry_count = cfg.max_retries) =>
                        /\ callers'[c].pc = "idle"
                        /\ callers'[c].result = "reraised"
                        /\ _retry_count' = _retry_count ]_vars

\* C22's case: the budget was used up before this invocation began; its first
\* attempt failed with a recognized rate-limit error and it re-raised at once.
C22_Witness ==
    \E c \in DOMAIN callers :
        /\ IsRetry
        /\ cfg.max_retries > 0
        /\ _retry_count = cfg.max_retries
        /\ callers[c].pc = "idle"
        /\ callers[c].result = "reraised"
        /\ callers[c].e.rate_limit
        /\ callers[c].attempts = 1

====
